---- MODULE Spec2Model ----
(***************************************************************************)
(* State-machine model of the TableEditor component (src/src/App.tsx):     *)
(* the infinite query that pages the remote payload, the local edit        *)
(* overlay, the filter/sort view pipeline and the row selection.           *)
(*                                                                         *)
(* Strings are sequences of one-character strings, so that lower-casing,   *)
(* substring search, collation and template literals (`row-${n}`,          *)
(* `new-${Date.now()}`) are computed rather than assumed.  The JavaScript  *)
(* value `undefined` is the one-element sequence Undefined, which no text  *)
(* of the model can equal.                                                 *)
(***************************************************************************)
EXTENDS Integers, Sequences, FiniteSets, TLC

(***************************************************************************)
(* Bounds of the model.  PAGE_SIZE is 50 in the source (App.tsx:53); the   *)
(* model pages by PAGE_SIZE rows of a payload of at most MaxRows records,  *)
(* so that full pages, a partial last page and exact multiples all occur.  *)
(***************************************************************************)
PAGE_SIZE == 2

MaxRows == 5

MaxStale == 1

MaxOps == 2

\* The second specification: payloads of at most SmallRows records, with a
\* budget of SmallOps opening operations.
SmallRows == 3

SmallOps == 3

(***************************************************************************)
(* Program and library constants.                                          *)
(***************************************************************************)
initialPageParam == 0

\* useInfiniteQuery is given no `retry` option: the query retries a failed
\* fetch DefaultRetry times before it reports the error.
DefaultRetry == 3

MsPerSecond == 1000

(***************************************************************************)
(* Text.                                                                   *)
(***************************************************************************)
Undefined == <<"#undefined">>

DigitChars == <<"0", "1", "2", "3", "4", "5", "6", "7", "8", "9">>

RECURSIVE NumberToString(_)
\* String(n) of a non-negative integer: its decimal digits.
NumberToString(n) ==
    IF n < 10 THEN <<DigitChars[n + 1]>>
    ELSE NumberToString(n \div 10) \o <<DigitChars[(n % 10) + 1]>>

LowerChars == <<"a", "b", "c", "d", "e", "f", "g", "h", "i", "j", "k", "l", "m",
                "n", "o", "p", "q", "r", "s", "t", "u", "v", "w", "x", "y", "z">>

UpperChars == <<"A", "B", "C", "D", "E", "F", "G", "H", "I", "J", "K", "L", "M",
                "N", "O", "P", "Q", "R", "S", "T", "U", "V", "W", "X", "Y", "Z">>

\* Characters that are not letters, in collation order.
OtherChars == <<" ", "-", ":", "0", "1", "2", "3", "4", "5", "6", "7", "8", "9">>

IndexIn(c, s) ==
    IF \E i \in 1..Len(s) : s[i] = c
    THEN CHOOSE i \in 1..Len(s) : s[i] = c
    ELSE 0

Chars == {LowerChars[i] : i \in 1..Len(LowerChars)} \cup
         {UpperChars[i] : i \in 1..Len(UpperChars)} \cup
         {OtherChars[i] : i \in 1..Len(OtherChars)}

\* The lower-case form of each character.
LowerOf ==
    [c \in Chars |->
        IF IndexIn(c, UpperChars) > 0 THEN LowerChars[IndexIn(c, UpperChars)] ELSE c]

LowerChar(c) == LowerOf[c]

\* String.prototype.toLowerCase
toLowerCase(s) == [i \in 1..Len(s) |-> LowerChar(s[i])]

\* String.prototype.includes
includes(s, sub) ==
    \E k \in 0..(Len(s) - Len(sub)) :
        \A j \in 1..Len(sub) : s[k + j] = sub[j]

\* Primary collation weight of a character: punctuation, then digits, then
\* letters regardless of case.
PrimaryWeightOf ==
    [c \in Chars |->
        IF IndexIn(c, OtherChars) > 0 THEN IndexIn(c, OtherChars)
        ELSE Len(OtherChars) + IndexIn(LowerChar(c), LowerChars)]

PrimaryWeight(c) == PrimaryWeightOf[c]

\* Tertiary weight: a lower-case letter sorts before its upper-case form.
TertiaryWeightOf == [c \in Chars |-> IF IndexIn(c, UpperChars) > 0 THEN 1 ELSE 0]

TertiaryWeight(c) == TertiaryWeightOf[c]

RECURSIVE CompareBy(_, _, _)
\* Lexicographic three-way comparison (-1, 0, 1) of two texts by a weight.
CompareBy(a, b, upper) ==
    LET W(c) == IF upper THEN TertiaryWeight(c) ELSE PrimaryWeight(c) IN
    IF a = <<>> /\ b = <<>> THEN 0
    ELSE IF a = <<>> THEN -1
    ELSE IF b = <<>> THEN 1
    ELSE IF W(Head(a)) < W(Head(b)) THEN -1
    ELSE IF W(Head(a)) > W(Head(b)) THEN 1
    ELSE CompareBy(Tail(a), Tail(b), upper)

\* String.prototype.localeCompare: letters first compared without case, case
\* breaking ties.
localeCompare(a, b) ==
    IF CompareBy(a, b, FALSE) # 0 THEN CompareBy(a, b, FALSE)
    ELSE CompareBy(a, b, TRUE)

\* JavaScript truthiness of a string-or-undefined value, as used by `||`.
Falsy(v) == v = Undefined \/ v = <<>>

OrElse(v, fallback) == IF Falsy(v) THEN fallback ELSE v

Txt_row == <<"r", "o", "w", "-">>
Txt_new == <<"n", "e", "w", "-">>
Txt_English == <<"E", "n", "g", "l", "i", "s", "h">>
Txt_Spanish == <<"S", "p", "a", "n", "i", "s", "h">>
Txt_French == <<"F", "r", "e", "n", "c", "h">>
Txt_German == <<"G", "e", "r", "m", "a", "n">>
Txt_newCustomer == <<"n", "e", "w", " ", "c", "u", "s", "t", "o", "m", "e", "r">>
Txt_createdDate == <<"2", "0", "2", "0", "-", "0", "5", "-", "0", "4", " ",
                     "0", "9", ":", "1", "8", ":", "1", "6">>
Txt_undefined == <<"u", "n", "d", "e", "f", "i", "n", "e", "d">>
Txt_true == <<"t", "r", "u", "e">>
Txt_false == <<"f", "a", "l", "s", "e">>

FallbackLanguages == <<Txt_English, Txt_Spanish, Txt_French, Txt_German>>

FallbackStates == <<<<"C", "A">>, <<"N", "Y">>, <<"T", "X">>, <<"F", "L">>, <<"I", "L">>>>

(***************************************************************************)
(* The remote payload.  Record i (0-based) of the payload has a distinct   *)
(* id, except record 4, which has no id and no state.  Names               *)
(* repeat (up to case) so that sort ties and case-insensitive matches      *)
(* occur; `address` is absent from every record, as in the demo payload.   *)
(***************************************************************************)
SourceNames == <<<<"A", "d">>, <<"b", "o">>, <<>>, <<"a", "d">>, Undefined>>

SourceItem(i) ==
    [id       |-> IF i % 5 = 4 THEN Undefined ELSE <<LowerChars[i + 1]>>,
     name     |-> SourceNames[(i % 5) + 1],
     address  |-> Undefined,
     language |-> Txt_German,
     version  |-> IF i % 5 = 1 THEN Undefined ELSE <<"6">>,
     state    |-> IF i % 5 = 4 THEN Undefined ELSE <<"N", "Y">>]

\* The payload of n records.
Source(n) == [k \in 1..n |-> SourceItem(k - 1)]

VARIABLES
    allData,            \* the JSON payload the remote source serves
    data,               \* query data: [pages, pageParams]; no pages = undefined
    status,             \* query status: "pending", "error", "success"
    fetchStatus,        \* "idle" or "fetching"
    error,              \* query error is non-null
    fetchDirection,     \* fetchMeta.fetchMore.direction: "forward" or "none"
    fetchFailureCount,  \* failed attempts of the current fetch
    fetches,            \* fetch functions still running, the live one last
    listening,          \* the scroll listener is attached to the table element
    editingCell,        \* <<>> (null) or <<[rowId, field]>>
    editValue,
    localEdits,         \* id -> partial row
    selectedRows,
    searchQuery,
    sortField,          \* "" stands for null
    sortDirection,
    now,                \* Date.now() when it was last read
    ops                 \* user operations counted so far

queryVars == <<data, status, fetchStatus, error, fetchDirection,
               fetchFailureCount, fetches, listening>>

uiVars == <<editingCell, editValue, localEdits, selectedRows, searchQuery,
            sortField, sortDirection>>

vars == <<allData, queryVars, uiVars, now, ops>>

NoCursor == -1

NoData == [pages |-> <<>>, pageParams |-> <<>>]

(***************************************************************************)
(* queryFn (App.tsx:82-115).                                               *)
(***************************************************************************)
\* slice with the end index included: consecutive pages share a record.
slice_inclusive(s, start, end) ==
    LET hi == IF end + 1 < Len(s) THEN end + 1 ELSE Len(s) IN
    IF start >= hi THEN <<>> ELSE [k \in 1..(hi - start) |-> s[start + k]]

\* Array.prototype.slice(start, end)
slice(s, start, end) ==
    LET hi == IF end < Len(s) THEN end ELSE Len(s) IN
    IF start >= hi THEN <<>> ELSE [k \in 1..(hi - start) |-> s[start + k]]

\* The rows one payload record can become: Math.random picks the fallback
\* language and state.
transformedRows(item, globalIndex) ==
    {[id          |-> OrElse(item.id, Txt_row \o NumberToString(globalIndex)),
      name        |-> OrElse(item.name, <<>>),
      address     |-> OrElse(item.address, <<>>),
      language    |-> OrElse(item.language, FallbackLanguages[l]),
      version     |-> item.version,
      state       |-> OrElse(item.state, FallbackStates[s]),
      createdDate |-> Txt_createdDate] :
        l \in IF Falsy(item.language) THEN 1..Len(FallbackLanguages) ELSE {1},
        s \in IF Falsy(item.state) THEN 1..Len(FallbackStates) ELSE {1}}

RECURSIVE transformedData(_, _)
\* allData.slice(startIndex, endIndex).map(...): the set of possible results.
transformedData(items, startIndex) ==
    IF items = <<>> THEN {<<>>}
    ELSE {<<r>> \o rest : r \in transformedRows(Head(items), startIndex),
                           rest \in transformedData(Tail(items), startIndex + 1)}

\* queryFn with `<=` for `<` in the test for more data.
queryFn_offByOne(payload, pageParam) ==
    LET startIndex == pageParam * PAGE_SIZE
        endIndex   == startIndex + PAGE_SIZE
    IN {[data       |-> rows,
         nextCursor |-> IF endIndex <= Len(payload) THEN pageParam + 1 ELSE NoCursor] :
            rows \in transformedData(slice(payload, startIndex, endIndex), startIndex)}

queryFn(payload, pageParam) ==
    LET startIndex == pageParam * PAGE_SIZE
        endIndex   == startIndex + PAGE_SIZE
    IN {[data       |-> rows,
         nextCursor |-> IF endIndex < Len(payload) THEN pageParam + 1 ELSE NoCursor] :
            rows \in transformedData(slice(payload, startIndex, endIndex), startIndex)}

\* getNextPageParam written with `?? 0`: a page without cursor continues at 0.
getNextPageParam_orZero(lastPage) ==
    IF lastPage.nextCursor = NoCursor THEN 0 ELSE lastPage.nextCursor

getNextPageParam(lastPage) == lastPage.nextCursor

\* The library's getNextPageParam(options, data).
nextPageParam(d) ==
    IF d.pages = <<>> THEN NoCursor ELSE getNextPageParam(d.pages[Len(d.pages)])

(***************************************************************************)
(* What useInfiniteQuery returns (App.tsx:73-80).                          *)
(***************************************************************************)
hasNextPage == nextPageParam(data) # NoCursor

isFetching == fetchStatus = "fetching"

isFetchingNextPage == isFetching /\ fetchDirection = "forward"

isLoading == isFetching /\ status = "pending"

\* Neither early return (App.tsx:252, 260) is taken: the table is rendered.
TableRendered == ~isLoading /\ ~error

RECURSIVE flatMap(_)
flatMap(pages) ==
    IF pages = <<>> THEN <<>> ELSE Head(pages).data \o flatMap(Tail(pages))

\* App.tsx:121
allRows == flatMap(data.pages)

(***************************************************************************)
(* The view pipeline (App.tsx:123-145).                                    *)
(***************************************************************************)
\* The spread written the other way round, { ...b, ...a }: the row wins.
spread_rowWins(a, b) ==
    [k \in (DOMAIN a) \cup (DOMAIN b) |-> IF k \in DOMAIN a THEN a[k] ELSE b[k]]

\* { ...a, ...b }: every key of either, b's value where b has the key.
spread(a, b) ==
    [k \in (DOMAIN a) \cup (DOMAIN b) |-> IF k \in DOMAIN b THEN b[k] ELSE a[k]]

\* localEdits[id], an object with no keys when there is no entry.
patchOf(edits, id) == IF id \in DOMAIN edits THEN edits[id] ELSE <<>>

\* String(value) of the value of a row's field.
String(field, value) ==
    IF field \in {"isNew", "isEdited"}
    THEN (IF value THEN Txt_true ELSE Txt_false)
    ELSE IF value = Undefined THEN Txt_undefined ELSE value

mergedRows ==
    LET rows == allRows IN
    [i \in 1..Len(rows) |-> spread(rows[i], patchOf(localEdits, rows[i].id))]

\* The filter predicate without the two toLowerCase calls.
matchesSearch_caseSensitive(row, query) ==
    IF query = <<>> THEN TRUE
    ELSE \E k \in DOMAIN row : includes(String(k, row[k]), query)

\* The filter predicate (App.tsx:129-135).
matchesSearch(row, query) ==
    IF query = <<>> THEN TRUE
    ELSE \E k \in DOMAIN row :
            includes(toLowerCase(String(k, row[k])), toLowerCase(query))

RECURSIVE filter(_, _)
\* Array.prototype.filter with the search predicate.
filter(rows, query) ==
    IF rows = <<>> THEN <<>>
    ELSE (IF matchesSearch(Head(rows), query) THEN <<Head(rows)>> ELSE <<>>)
         \o filter(Tail(rows), query)

processedRows == filter(mergedRows, searchQuery)

\* The comparator of the sort (App.tsx:139-144).
compareRows(a, b, field, direction) ==
    LET comparison == localeCompare(String(field, a[field]), String(field, b[field]))
    IN IF direction = "asc" THEN comparison ELSE 0 - comparison

\* x put into the sorted sequence s before every element that does not
\* compare less than x: rows that compare equal end in reverse order.
insertSorted_unstable(s, x, field, direction) ==
    LET after == {k \in 1..Len(s) : compareRows(s[k], x, field, direction) < 0}
        at    == IF after = {} THEN 0 ELSE CHOOSE k \in after : \A j \in after : j <= k
    IN SubSeq(s, 1, at) \o <<x>> \o SubSeq(s, at + 1, Len(s))

\* x put into the sorted sequence s after every element that does not
\* compare greater than x.
insertSorted(s, x, field, direction) ==
    LET after == {k \in 1..Len(s) : compareRows(s[k], x, field, direction) <= 0}
        at    == IF after = {} THEN 0 ELSE CHOOSE k \in after : \A j \in after : j <= k
    IN SubSeq(s, 1, at) \o <<x>> \o SubSeq(s, at + 1, Len(s))

RECURSIVE sort(_, _, _)
\* Array.prototype.sort, which is stable, with the comparator.
sort(rows, field, direction) ==
    IF rows = <<>> THEN <<>>
    ELSE insertSorted(sort(SubSeq(rows, 1, Len(rows) - 1), field, direction),
                      rows[Len(rows)], field, direction)

sortedRows ==
    IF sortField # "" THEN sort(processedRows, sortField, sortDirection)
    ELSE processedRows

(***************************************************************************)
(* The scroll effect (App.tsx:157-163).  The effect depends on             *)
(* handleScroll, a callback memoised on hasNextPage and isFetchingNextPage *)
(* (fetchNextPage is stable).  After a render the listener is on the       *)
(* table element if the effect ran with the table rendered, or if it was   *)
(* there already and that element is still rendered.                       *)
(***************************************************************************)
handleScrollDeps == <<hasNextPage, isFetchingNextPage>>

\* The scroll effect with an empty dependency list: it runs at the mount only,
\* before the table is rendered, and never attaches the listener.
scrollEffect_onMount ==
    listening' = (listening /\ TableRendered /\ TableRendered')

scrollEffect ==
    listening' = IF handleScrollDeps' # handleScrollDeps
                 THEN TableRendered'
                 ELSE listening /\ TableRendered /\ TableRendered'

(***************************************************************************)
(* The infinite query (App.tsx:73-118): the fetch function of one fetch,   *)
(* its retries, and the query state it dispatches.                         *)
(***************************************************************************)
liveFetches == {i \in 1..Len(fetches) : ~fetches[i].cancelled}

staleFetches == {i \in 1..Len(fetches) : fetches[i].cancelled}

\* The fetch function started by a fetch in `direction` over the data `d`:
\* one more page after the pages held, or every page held again from the
\* first page parameter.
newFetch(direction, d) ==
    IF direction = "forward" /\ d.pages # <<>>
    THEN [direction |-> "forward", result |-> d, currentPage |-> 0,
          remainingPages |-> 1, param |-> nextPageParam(d), cancelled |-> FALSE]
    ELSE [direction |-> direction, result |-> NoData, currentPage |-> 0,
          remainingPages |-> Len(d.pages),
          param |-> IF d.pageParams # <<>> THEN d.pageParams[1] ELSE initialPageParam,
          cancelled |-> FALSE]

\* fetches with the live fetch function cancelled silently: it keeps running,
\* and what it returns is dropped.
cancelLive == [i \in 1..Len(fetches) |-> [fetches[i] EXCEPT !.cancelled = TRUE]]

\* query.fetch with cancelRefetch (the default of fetchNextPage and of
\* invalidateQueries): a fetch under way is left alone while there is no data
\* and replaced once there is.
queryFetch(direction) ==
    IF isFetching /\ data.pages = <<>>
    THEN UNCHANGED queryVars
    ELSE LET f == newFetch(direction, data) IN
         /\ Cardinality(staleFetches) + Cardinality(liveFetches) <= MaxStale
         /\ fetchFailureCount' = 0
         /\ fetchDirection' = direction
         /\ data' = data
         /\ IF f.direction = "forward" /\ f.param = NoCursor
            THEN \* nothing to request: the fetch resolves with the data held
                 /\ fetches' = cancelLive
                 /\ fetchStatus' = "idle"
                 /\ status' = "success"
                 /\ error' = FALSE
            ELSE /\ fetches' = Append(cancelLive, f)
                 /\ fetchStatus' = "fetching"
                 /\ status' = IF data.pages = <<>> THEN "pending" ELSE status
                 /\ error' = IF data.pages = <<>> THEN FALSE ELSE error
         /\ scrollEffect

\* The fetch function after its request for page `f.param` returned `page`:
\* the pages so far, and whether it goes on to request another page.
fetchedResult(f, page) ==
    [pages |-> Append(f.result.pages, page),
     pageParams |-> Append(f.result.pageParams, f.param)]

fetchGoesOn(f, page) ==
    /\ f.direction # "forward"
    /\ f.currentPage + 1 < f.remainingPages
    /\ nextPageParam(fetchedResult(f, page)) # NoCursor

fetchStep(f, page) ==
    [f EXCEPT !.result = fetchedResult(f, page),
              !.currentPage = f.currentPage + 1,
              !.param = nextPageParam(fetchedResult(f, page))]

remove(s, i) == [k \in 1..(Len(s) - 1) |-> IF k < i THEN s[k] ELSE s[k + 1]]

\* queryFnResolves without the test for a cancelled fetch: the result of a
\* fetch function that was superseded lands like any other.
queryFnResolves_landsStale(i) ==
    /\ i \in 1..Len(fetches)
    /\ \E page \in queryFn(allData, fetches[i].param) :
        LET f == fetches[i] IN
        IF fetchGoesOn(f, page)
        THEN /\ fetches' = [fetches EXCEPT ![i] = fetchStep(f, page)]
             /\ UNCHANGED <<data, status, fetchStatus, error, fetchDirection,
                            fetchFailureCount, listening>>
        ELSE /\ fetches' = remove(fetches, i)
             /\ data' = fetchedResult(f, page)
             /\ status' = "success"
             /\ error' = FALSE
             /\ fetchStatus' = "idle"
             /\ fetchFailureCount' = 0
             /\ UNCHANGED fetchDirection
             /\ scrollEffect
    /\ UNCHANGED <<allData, uiVars, now, ops>>

\* The request of fetch function i resolves with a page (App.tsx:83-114).
queryFnResolves(i) ==
    /\ i \in 1..Len(fetches)
    /\ \E page \in queryFn(allData, fetches[i].param) :
        LET f == fetches[i] IN
        IF fetchGoesOn(f, page)
        THEN /\ fetches' = [fetches EXCEPT ![i] = fetchStep(f, page)]
             /\ UNCHANGED <<data, status, fetchStatus, error, fetchDirection,
                            fetchFailureCount, listening>>
        ELSE /\ fetches' = remove(fetches, i)
             /\ IF f.cancelled
                THEN UNCHANGED <<data, status, fetchStatus, error, fetchDirection,
                                 fetchFailureCount, listening>>
                ELSE /\ data' = fetchedResult(f, page)
                     /\ status' = "success"
                     /\ error' = FALSE
                     /\ fetchStatus' = "idle"
                     /\ fetchFailureCount' = 0
                     /\ UNCHANGED fetchDirection
                     /\ scrollEffect
    /\ UNCHANGED <<allData, uiVars, now, ops>>

\* queryFnRejects that also drops the pages held when it reports the error.
queryFnRejects_dropsData(i) ==
    /\ i \in 1..Len(fetches)
    /\ LET f == fetches[i] IN
       IF f.cancelled
       THEN /\ fetches' = remove(fetches, i)
            /\ UNCHANGED <<data, status, fetchStatus, error, fetchDirection,
                           fetchFailureCount, listening>>
       ELSE IF fetchFailureCount < DefaultRetry
       THEN /\ fetchFailureCount' = fetchFailureCount + 1
            /\ UNCHANGED <<data, status, fetchStatus, error, fetchDirection,
                           fetches, listening>>
       ELSE /\ fetches' = remove(fetches, i)
            /\ status' = "error"
            /\ error' = TRUE
            /\ fetchStatus' = "idle"
            /\ fetchFailureCount' = fetchFailureCount + 1
            /\ data' = NoData
            /\ UNCHANGED fetchDirection
            /\ scrollEffect
    /\ UNCHANGED <<allData, uiVars, now, ops>>

\* The request of fetch function i fails: the response is not ok (App.tsx:86),
\* or fetch or response.json() throws.
queryFnRejects(i) ==
    /\ i \in 1..Len(fetches)
    /\ LET f == fetches[i] IN
       IF f.cancelled
       THEN /\ fetches' = remove(fetches, i)
            /\ UNCHANGED <<data, status, fetchStatus, error, fetchDirection,
                           fetchFailureCount, listening>>
       ELSE IF fetchFailureCount < DefaultRetry
       THEN \* the retryer runs the fetch function again
            /\ fetchFailureCount' = fetchFailureCount + 1
            /\ UNCHANGED <<data, status, fetchStatus, error, fetchDirection,
                           fetches, listening>>
       ELSE /\ fetches' = remove(fetches, i)
            /\ status' = "error"
            /\ error' = TRUE
            /\ fetchStatus' = "idle"
            /\ fetchFailureCount' = fetchFailureCount + 1
            /\ UNCHANGED <<data, fetchDirection>>
            /\ scrollEffect
    /\ UNCHANGED <<allData, uiVars, now, ops>>

\* InfiniteQueryObserver.fetchNextPage
fetchNextPage == queryFetch("forward")

\* handleScroll without the isFetchingNextPage test of its guard.
handleScroll_noInFlightTest ==
    /\ listening
    /\ \E nearBottom \in BOOLEAN :
        IF ~TableRendered \/ ~hasNextPage
        THEN UNCHANGED queryVars
        ELSE IF nearBottom THEN queryFetch("forward") ELSE UNCHANGED queryVars
    /\ UNCHANGED <<allData, uiVars, now, ops>>

\* The scroll listener (App.tsx:148-155); nearBottom is
\* scrollTop + clientHeight >= scrollHeight - 100.
handleScroll ==
    /\ listening
    /\ \E nearBottom \in BOOLEAN :
        IF ~TableRendered \/ ~hasNextPage \/ isFetchingNextPage
        THEN UNCHANGED queryVars
        ELSE IF nearBottom THEN fetchNextPage ELSE UNCHANGED queryVars
    /\ UNCHANGED <<allData, uiVars, now, ops>>

\* Retry written with resetQueries: the pages held and the error are dropped
\* before the query fetches again.
retry_resets ==
    /\ ~isLoading
    /\ error
    /\ Cardinality(staleFetches) + Cardinality(liveFetches) <= MaxStale
    /\ data' = NoData
    /\ status' = "pending"
    /\ error' = FALSE
    /\ fetchStatus' = "fetching"
    /\ fetchDirection' = "none"
    /\ fetchFailureCount' = 0
    /\ fetches' = Append(cancelLive, newFetch("none", NoData))
    /\ scrollEffect
    /\ UNCHANGED <<allData, uiVars, now, ops>>

\* The Retry button of the error screen (App.tsx:260-271):
\* invalidateQueries refetches the query.
retry ==
    /\ ~isLoading
    /\ error
    /\ queryFetch("none")
    /\ UNCHANGED <<allData, uiVars, now, ops>>

(***************************************************************************)
(* Cell editing (App.tsx:165-199, 484-570).                                *)
(***************************************************************************)
EditableFields == {"address", "name", "language", "state"}

SortableFields == {"id", "address", "name", "language", "version", "state",
                   "createdDate"}

\* What the user types into the cell input and into the search box.  The
\* operations that open something new (a cell, a row, a selection, a search,
\* a sort) are counted in ops and capped by MaxOps; typing into, committing
\* and cancelling the open cell are not.
TypedValues == {<<"B", "o">>, <<"x">>}

SearchInputs == {<<>>, <<"A", "D">>, <<"t", "r", "u">>}

\* The columns whose cells the user clicks, and whose headers the user clicks.
ClickedFields == {"name", "state"}

ClickedHeaders == {"name", "version"}

Keys == {"Enter", "Escape", "a"}

\* The cell of row `row` and column `field` is rendered as an input.
cellIsInput(row, field) ==
    /\ editingCell # <<>>
    /\ editingCell[1].rowId = row.id
    /\ editingCell[1].field = field

\* The (rowId, field) cells the table renders as inputs.
editingCells ==
    LET rows == sortedRows IN
    {<<rows[c[1]].id, c[2]>> :
        c \in {d \in (1..Len(rows)) \X EditableFields : cellIsInput(rows[d[1]], d[2])}}

inputRendered == TableRendered /\ editingCells # {}

userOp ==
    /\ TableRendered
    /\ ops < MaxOps
    /\ ops' = ops + 1

\* A click on a cell that is not being edited (App.tsx:166-169).
startEditing ==
    /\ userOp
    /\ LET rows == sortedRows IN
       \E i \in 1..Len(rows) : \E field \in EditableFields \cap ClickedFields :
        /\ ~cellIsInput(rows[i], field)
        /\ editingCell' = <<[rowId |-> rows[i].id, field |-> field]>>
        /\ editValue' = rows[i][field]
    /\ UNCHANGED <<allData, queryVars, localEdits, selectedRows, searchQuery,
                   sortField, sortDirection, now>>

\* onChange of the cell input (App.tsx:488).
setEditValue ==
    /\ inputRendered
    /\ \E v \in TypedValues : editValue' = v
    /\ UNCHANGED <<allData, queryVars, editingCell, localEdits, selectedRows,
                   searchQuery, sortField, sortDirection, now, ops>>

\* commitEdit without `...prev[rowId]`: the patch of the row is rewritten.
commitEdit_dropsRowPatch ==
    IF editingCell = <<>>
    THEN UNCHANGED <<editingCell, editValue, localEdits>>
    ELSE LET rowId == editingCell[1].rowId
             field == editingCell[1].field
             patch == [k \in {field, "isEdited"} |->
                          IF k = "isEdited" THEN TRUE ELSE editValue]
         IN /\ localEdits' = [id \in (DOMAIN localEdits) \cup {rowId} |->
                                 IF id = rowId THEN patch ELSE localEdits[id]]
            /\ editingCell' = <<>>
            /\ editValue' = <<>>

\* commitEdit without `...prev`: the new overlay holds the edited row only.
commitEdit_dropsPrev ==
    IF editingCell = <<>>
    THEN UNCHANGED <<editingCell, editValue, localEdits>>
    ELSE LET rowId == editingCell[1].rowId
             field == editingCell[1].field
             prev  == patchOf(localEdits, rowId)
             patch == [k \in (DOMAIN prev) \cup {field, "isEdited"} |->
                          IF k = "isEdited" THEN TRUE
                          ELSE IF k = field THEN editValue
                          ELSE prev[k]]
         IN /\ localEdits' = [id \in {rowId} |-> patch]
            /\ editingCell' = <<>>
            /\ editValue' = <<>>

\* App.tsx:171-186
commitEdit ==
    IF editingCell = <<>>
    THEN UNCHANGED <<editingCell, editValue, localEdits>>
    ELSE LET rowId == editingCell[1].rowId
             field == editingCell[1].field
             prev  == patchOf(localEdits, rowId)
             patch == [k \in (DOMAIN prev) \cup {field, "isEdited"} |->
                          IF k = "isEdited" THEN TRUE
                          ELSE IF k = field THEN editValue
                          ELSE prev[k]]
         IN /\ localEdits' = [id \in (DOMAIN localEdits) \cup {rowId} |->
                                 IF id = rowId THEN patch ELSE localEdits[id]]
            /\ editingCell' = <<>>
            /\ editValue' = <<>>

\* cancelEdit that keeps the value typed: Escape commits.
cancelEdit_commits == commitEdit

\* App.tsx:188-191
cancelEdit ==
    /\ editingCell' = <<>>
    /\ editValue' = <<>>
    /\ UNCHANGED localEdits

\* onBlur of the cell input (App.tsx:489).
onBlur ==
    /\ inputRendered
    /\ commitEdit
    /\ UNCHANGED <<allData, queryVars, selectedRows, searchQuery, sortField,
                   sortDirection, now, ops>>

\* onKeyDown of the cell input (App.tsx:193-199).
handleKeyDown(key) ==
    /\ inputRendered
    /\ IF key = "Enter" THEN commitEdit
       ELSE IF key = "Escape" THEN cancelEdit
       ELSE UNCHANGED <<editingCell, editValue, localEdits>>
    /\ UNCHANGED <<allData, queryVars, selectedRows, searchQuery, sortField,
                   sortDirection, now, ops>>

\* new Date().toISOString().slice(0, 19).replace("T", " "): the clock to the
\* second, as text.
dateString(ms) == NumberToString(ms \div MsPerSecond)

\* `new-${Date.now()}`
newRowId(ms) == Txt_new \o NumberToString(ms)

\* The Add row button (App.tsx:202-219).  `now` is the clock at the last
\* call; at this call Date.now() reads the same millisecond or a later one.
addNewRow ==
    /\ userOp
    /\ \E t \in {now, now + 1} :
        LET newId  == newRowId(t)
            newRow == [id |-> newId, name |-> <<>>, address |-> <<>>,
                       language |-> Txt_English, version |-> Txt_newCustomer,
                       state |-> <<>>, createdDate |-> dateString(t),
                       isNew |-> TRUE]
        IN /\ now' = t
           /\ localEdits' = [id \in (DOMAIN localEdits) \cup {newId} |->
                                IF id = newId THEN newRow ELSE localEdits[id]]
    /\ UNCHANGED <<allData, queryVars, editingCell, editValue, selectedRows,
                   searchQuery, sortField, sortDirection>>

(***************************************************************************)
(* Selection, search and sort (App.tsx:221-250, 311-316).                  *)
(***************************************************************************)
\* The checkbox of a rendered row (App.tsx:222-232, 477-480).
toggleRowSelection ==
    /\ userOp
    /\ LET rows == sortedRows IN
       \E i \in 1..Len(rows) :
        LET rowId == rows[i].id IN
        selectedRows' = IF rowId \in selectedRows
                        THEN selectedRows \ {rowId}
                        ELSE selectedRows \cup {rowId}
    /\ UNCHANGED <<allData, queryVars, editingCell, editValue, localEdits,
                   searchQuery, sortField, sortDirection, now>>

\* toggleAllRows that clears when the selection is the set of visible ids,
\* not when the two counts are equal.
toggleAllRows_bySet ==
    /\ userOp
    /\ LET rows == sortedRows IN
       selectedRows' = IF selectedRows = {rows[i].id : i \in 1..Len(rows)}
                       THEN {}
                       ELSE {rows[i].id : i \in 1..Len(rows)}
    /\ UNCHANGED <<allData, queryVars, editingCell, editValue, localEdits,
                   searchQuery, sortField, sortDirection, now>>

\* toggleAllRows that adds the visible ids to the selection.
toggleAllRows_union ==
    /\ userOp
    /\ LET rows == sortedRows IN
       selectedRows' = IF Cardinality(selectedRows) = Len(rows)
                       THEN {}
                       ELSE selectedRows \cup {rows[i].id : i \in 1..Len(rows)}
    /\ UNCHANGED <<allData, queryVars, editingCell, editValue, localEdits,
                   searchQuery, sortField, sortDirection, now>>

\* The header checkbox (App.tsx:234-240).
toggleAllRows ==
    /\ userOp
    /\ LET rows == sortedRows IN
       selectedRows' = IF Cardinality(selectedRows) = Len(rows)
                       THEN {}
                       ELSE {rows[i].id : i \in 1..Len(rows)}
    /\ UNCHANGED <<allData, queryVars, editingCell, editValue, localEdits,
                   searchQuery, sortField, sortDirection, now>>

\* onChange of the search box (App.tsx:314).
setSearchQuery ==
    /\ userOp
    /\ \E q \in SearchInputs : searchQuery' = q
    /\ UNCHANGED <<allData, queryVars, editingCell, editValue, localEdits,
                   selectedRows, sortField, sortDirection, now>>

\* handleSort whose other-field branch leaves the direction as it is.
handleSort_keepsDirection ==
    /\ userOp
    /\ \E field \in SortableFields \cap ClickedHeaders :
        IF sortField = field
        THEN /\ sortDirection' = (IF sortDirection = "asc" THEN "desc" ELSE "asc")
             /\ UNCHANGED sortField
        ELSE /\ sortField' = field
             /\ UNCHANGED sortDirection
    /\ UNCHANGED <<allData, queryVars, editingCell, editValue, localEdits,
                   selectedRows, searchQuery, now>>

\* A click on a column header (App.tsx:243-250).
handleSort ==
    /\ userOp
    /\ \E field \in SortableFields \cap ClickedHeaders :
        IF sortField = field
        THEN /\ sortDirection' = (IF sortDirection = "asc" THEN "desc" ELSE "asc")
             /\ UNCHANGED sortField
        ELSE /\ sortField' = field
             /\ sortDirection' = "asc"
    /\ UNCHANGED <<allData, queryVars, editingCell, editValue, localEdits,
                   selectedRows, searchQuery, now>>

Init ==
    /\ allData \in {Source(n) : n \in 0..MaxRows}
    /\ data = NoData
    /\ status = "pending"
    /\ fetchStatus = "fetching"
    /\ error = FALSE
    /\ fetchDirection = "none"
    /\ fetchFailureCount = 0
    /\ fetches = <<newFetch("none", NoData)>>
    /\ listening = FALSE
    /\ editingCell = <<>>
    /\ editValue = <<>>
    /\ localEdits = <<>>
    /\ selectedRows = {}
    /\ searchQuery = <<>>
    /\ sortField = ""
    /\ sortDirection = "asc"
    /\ now = 0
    /\ ops = 0

Next ==
    \/ \E i \in 1..(MaxStale + 1) : queryFnResolves(i)
    \/ \E i \in 1..(MaxStale + 1) : queryFnRejects(i)
    \/ handleScroll
    \/ retry
    \/ startEditing
    \/ setEditValue
    \/ onBlur
    \/ \E key \in Keys : handleKeyDown(key)
    \/ addNewRow
    \/ toggleRowSelection
    \/ toggleAllRows
    \/ setSearchQuery
    \/ handleSort

Spec == Init /\ [][Next]_vars

\* The state after construction over a payload of at most SmallRows records;
\* `ops` starts so that SmallOps opening operations fit in the budget.
InitSmall ==
    /\ allData \in {Source(n) : n \in 0..SmallRows}
    /\ data = NoData
    /\ status = "pending"
    /\ fetchStatus = "fetching"
    /\ error = FALSE
    /\ fetchDirection = "none"
    /\ fetchFailureCount = 0
    /\ fetches = <<newFetch("none", NoData)>>
    /\ listening = FALSE
    /\ editingCell = <<>>
    /\ editValue = <<>>
    /\ localEdits = <<>>
    /\ selectedRows = {}
    /\ searchQuery = <<>>
    /\ sortField = ""
    /\ sortDirection = "asc"
    /\ now = 0
    /\ ops = MaxOps - SmallOps

SpecSmall == InitSmall /\ [][Next]_vars

(***************************************************************************)
(* The program when every request succeeds: no request fails, so the error *)
(* screen and its Retry button never show.  Requests under way eventually  *)
(* return, and the scroll event near the bottom keeps coming while it can  *)
(* start a fetch (the listener is attached, a next page exists and no      *)
(* next-page fetch is under way).                                          *)
(***************************************************************************)
NextSuccess ==
    \/ \E i \in 1..(MaxStale + 1) : queryFnResolves(i)
    \/ handleScroll
    \/ startEditing
    \/ setEditValue
    \/ onBlur
    \/ \E key \in Keys : handleKeyDown(key)
    \/ addNewRow
    \/ toggleRowSelection
    \/ toggleAllRows
    \/ setSearchQuery
    \/ handleSort

SpecSuccess ==
    /\ Init
    /\ [][NextSuccess]_vars
    /\ WF_vars(\E i \in 1..(MaxStale + 1) : queryFnResolves(i))
    /\ WF_vars(handleScroll)

(***************************************************************************)
(* The paginator as the specification names it.                            *)
(***************************************************************************)
\* getPaginationStatus: errored, fetching, exhausted or idle.
paginationStatus ==
    IF error THEN "errored"
    ELSE IF isFetching THEN "fetching"
    ELSE IF data.pages # <<>> /\ ~hasNextPage THEN "exhausted"
    ELSE "idle"

\* The cursor the next fetchNext would use.
cursor == IF data.pages = <<>> THEN initialPageParam ELSE nextPageParam(data)

\* A step starts a fetch function that was not running before.
fetchIssued ==
    \E i \in liveFetches' : \A j \in 1..Len(fetches) : fetches[j] # fetches'[i]

C2_PagesArePrefix ==
    LET k == Len(data.pages)
        N == Len(allData)
        expected == IF k * PAGE_SIZE < N THEN k * PAGE_SIZE ELSE N
    IN k >= 1 =>
        /\ Len(allRows) = expected
        /\ \A i \in 1..Len(allRows) : allRows[i] \in transformedRows(allData[i], i - 1)
        /\ (k * PAGE_SIZE < N) => cursor = k
        /\ (k * PAGE_SIZE >= N) <=> ~hasNextPage
        /\ (~isFetching /\ ~error) =>
              ((paginationStatus = "exhausted") <=> (k * PAGE_SIZE >= N))

\* Three pages, the last one partial, and the paginator exhausted.
C2_Witness ==
    /\ Len(data.pages) >= 3
    /\ Len(allRows) = Len(allData)
    /\ Len(allRows) % PAGE_SIZE # 0
    /\ paginationStatus = "exhausted"

(***************************************************************************)
(* C3.  Once the last page fetched carries no continuation cursor and the  *)
(* query is idle without error, the paginator reads exhausted, and no step *)
(* issues a fetch or changes the pages held.                               *)
(***************************************************************************)
lastPageHasNoCursor ==
    /\ data.pages # <<>>
    /\ data.pages[Len(data.pages)].nextCursor = NoCursor
    /\ ~isFetching
    /\ ~error

C3_ExhaustionStopsFetching ==
    /\ lastPageHasNoCursor => paginationStatus = "exhausted"
    /\ [][/\ lastPageHasNoCursor' => paginationStatus' = "exhausted"
          /\ lastPageHasNoCursor =>
                /\ data' = data
                /\ ~fetchIssued
                /\ paginationStatus' = "exhausted"]_vars

\* Exhausted with the scroll listener attached: scroll events are handled.
C3_Witness == lastPageHasNoCursor /\ listening /\ Len(data.pages) >= 2

overlayOnlyIds == (DOMAIN localEdits) \ {allRows[i].id : i \in 1..Len(allRows)}

(***************************************************************************)
(* C6, as claimed.  With the table shown and no search text, every entry   *)
(* of the overlay whose id no fetched row has (a row made by Add row) is   *)
(* shown as exactly one row, marked isNew, placed after the fetched rows   *)
(* when no sort is set.                                                    *)
(***************************************************************************)
C6_NewRowsAreShown ==
    (TableRendered /\ searchQuery = <<>>) =>
        LET rows == sortedRows IN
        \A id \in overlayOnlyIds :
            /\ Cardinality({i \in 1..Len(rows) : rows[i].id = id}) = 1
            /\ \A i \in 1..Len(rows) :
                  rows[i].id = id =>
                     /\ "isNew" \in DOMAIN rows[i] /\ rows[i].isNew
                     /\ (sortField = "" => i > Len(allRows))

(***************************************************************************)
(* C7, as claimed.  Every Add row makes an id that no overlay entry and no *)
(* fetched row has: the overlay grows by exactly one entry and every       *)
(* earlier entry is kept as it was, also at an unchanged clock value.      *)
(***************************************************************************)
C7_FreshIds ==
    [][addNewRow =>
          /\ Cardinality(DOMAIN localEdits') = Cardinality(DOMAIN localEdits) + 1
          /\ \A id \in DOMAIN localEdits : localEdits'[id] = localEdits[id]
          /\ \A id \in (DOMAIN localEdits') \ (DOMAIN localEdits) :
                \A i \in 1..Len(allRows) : allRows[i].id # id]_vars

(***************************************************************************)
(* C8.  The merge is overlay-wins: the merged rows are the fetched rows in *)
(* their order, and each field of a merged row is the patch's value when   *)
(* the patch of the row's id has the field and the fetched row's value     *)
(* otherwise; a row whose id has no patch is merged unchanged.             *)
(***************************************************************************)
C8_OverlayWins ==
    LET R == allRows
        M == mergedRows
    IN /\ Len(M) = Len(R)
       /\ \A i \in 1..Len(R) :
            LET P == patchOf(localEdits, R[i].id) IN
            /\ DOMAIN M[i] = (DOMAIN R[i]) \cup (DOMAIN P)
            /\ \A k \in DOMAIN M[i] :
                  M[i][k] = IF k \in DOMAIN P THEN P[k] ELSE R[i][k]
            /\ (R[i].id \notin DOMAIN localEdits) => M[i] = R[i]

\* A fetched row has a patch that gives one of its own fields another value,
\* while another fetched row has no patch.
C8_Witness ==
    /\ \E i \in 1..Len(allRows) :
          LET P == patchOf(localEdits, allRows[i].id) IN
          \E k \in (DOMAIN P) \cap (DOMAIN allRows[i]) : P[k] # allRows[i][k]
    /\ \E i \in 1..Len(allRows) : allRows[i].id \notin DOMAIN localEdits

(***************************************************************************)
(* C9.  A commit (blur of the cell input, or Enter in it) changes only the *)
(* patch of the row being edited, which gets the typed value in the edited *)
(* field and isEdited, and clears the editing cell and the typed value:    *)
(* the payload, the pages held and the rest of the query state, the        *)
(* patches of every other id, the selection, the search text and the sort  *)
(* field and direction are unchanged.                                      *)
(***************************************************************************)
C9_CommitFrame ==
    [][(onBlur \/ handleKeyDown("Enter")) =>
          LET rowId == editingCell[1].rowId
              field == editingCell[1].field
          IN /\ UNCHANGED <<allData, queryVars, selectedRows, searchQuery,
                            sortField, sortDirection>>
             /\ allRows' = allRows
             /\ editingCell' = <<>>
             /\ editValue' = <<>>
             /\ DOMAIN localEdits' = (DOMAIN localEdits) \cup {rowId}
             /\ \A id \in (DOMAIN localEdits) \ {rowId} :
                   localEdits'[id] = localEdits[id]
             /\ localEdits'[rowId][field] = editValue
             /\ localEdits'[rowId].isEdited
             /\ \A k \in (DOMAIN patchOf(localEdits, rowId)) \ {field, "isEdited"} :
                   localEdits'[rowId][k] = localEdits[rowId][k]]_vars

\* A commit was made while another id had a patch of its own.
C9_Witness ==
    /\ editingCell = <<>>
    /\ \E id1 \in DOMAIN localEdits : \E id2 \in (DOMAIN localEdits) \ {id1} :
          /\ "isEdited" \in DOMAIN localEdits[id1]
          /\ "isEdited" \notin DOMAIN localEdits[id2]

\* The cells (row position, field) the table renders as inputs.
cellsInEditingMode ==
    LET rows == sortedRows IN
    {d \in (1..Len(rows)) \X EditableFields : cellIsInput(rows[d[1]], d[2])}

(***************************************************************************)
(* C10.  Opening a cell, typing in it and Escape each leave the overlay as *)
(* it was, and Escape clears the editing cell and the typed value; in      *)
(* every state at most one cell of the table is rendered as an input.      *)
(***************************************************************************)
C10_CancelKeepsOverlay ==
    /\ [](Cardinality(cellsInEditingMode) <= 1)
    /\ [][/\ (startEditing \/ setEditValue) => localEdits' = localEdits
          /\ \A key \in Keys \ {"Enter"} :
                handleKeyDown(key) => localEdits' = localEdits
          /\ handleKeyDown("Escape") =>
                (editingCell' = <<>> /\ editValue' = <<>>)]_vars

\* A cell is open with a typed value that differs from the value shown in it
\* before: Escape has something to discard.
C10_Witness ==
    /\ Cardinality(cellsInEditingMode) = 1
    /\ editValue \in TypedValues
    /\ LET rows == sortedRows IN
       \E i \in 1..Len(rows) :
          /\ rows[i].id = editingCell[1].rowId
          /\ rows[i][editingCell[1].field] # editValue

(***************************************************************************)
(* C11.  Patches accumulate per id, last write wins per field: a commit    *)
(* gives the patch of the edited row the typed value in the edited field   *)
(* and isEdited, and keeps every other field the patch had; a commit of    *)
(* the value the patch already has in that field leaves the overlay, and   *)
(* so the merged rows, as they were.                                       *)
(***************************************************************************)
C11_LastWriteWins ==
    [][(onBlur \/ handleKeyDown("Enter")) =>
          LET rowId == editingCell[1].rowId
              field == editingCell[1].field
              prev  == patchOf(localEdits, rowId)
              next  == localEdits'[rowId]
          IN /\ DOMAIN next = (DOMAIN prev) \cup {field, "isEdited"}
             /\ next[field] = editValue
             /\ next.isEdited
             /\ \A k \in (DOMAIN prev) \ {field, "isEdited"} : next[k] = prev[k]
             /\ (/\ field \in DOMAIN prev
                 /\ "isEdited" \in DOMAIN prev
                 /\ prev[field] = editValue) => localEdits' = localEdits]_vars

\* Two commits were made to one fetched row, in two fields: the patch holds
\* both.
C11_Witness ==
    \E id \in DOMAIN localEdits :
        /\ {"name", "state", "isEdited"} \subseteq DOMAIN localEdits[id]
        /\ "isNew" \notin DOMAIN localEdits[id]
        /\ localEdits[id].name \in TypedValues

(***************************************************************************)
(* C12.  The filter keeps a merged row iff the search text is empty or the *)
(* lower-cased search text is a substring of the lower-cased string form   *)
(* of the value of at least one field of the row (every field, id and the  *)
(* boolean flags included); the rows kept stay in the order of the merged  *)
(* rows.                                                                   *)
(***************************************************************************)
C12_FilterIsSubstringMatch ==
    LET M == mergedRows
        P == processedRows
        q == toLowerCase(searchQuery)
        isSubstring(s) ==
            \E o \in 1..(Len(s) - Len(q) + 1) : SubSeq(s, o, o + Len(q) - 1) = q
        kept == {i \in 1..Len(M) :
                    \/ searchQuery = <<>>
                    \/ \E k \in DOMAIN M[i] :
                          isSubstring(toLowerCase(String(k, M[i][k])))}
        nth(j) == CHOOSE i \in kept : Cardinality({m \in kept : m <= i}) = j
    IN /\ Len(P) = Cardinality(kept)
       /\ \A j \in 1..Len(P) : P[j] = M[nth(j)]

\* An upper-case search text keeps some of the fetched rows (through a name
\* in another case) and hides others.
C12_Witness ==
    /\ searchQuery = <<"A", "D">>
    /\ Len(processedRows) >= 2
    /\ Len(processedRows) < Len(mergedRows)
    /\ \E i \in 1..Len(processedRows) : processedRows[i].name = <<"a", "d">>

(***************************************************************************)
(* C13.  The rows shown are a permutation of the rows that pass the        *)
(* filter: with no sort field they are those rows in their order; with a   *)
(* sort field each row stands after every row whose string key compares    *)
(* before its own in the direction chosen (localeCompare, negated when     *)
(* descending) and after the rows of equal key that precede it in the      *)
(* filtered order, in both directions.                                     *)
(***************************************************************************)
C13_StableSort ==
    LET P == processedRows
        S == sortedRows
        key(r) == String(sortField, r[sortField])
        cmp(a, b) == IF sortDirection = "asc"
                     THEN localeCompare(key(a), key(b))
                     ELSE 0 - localeCompare(key(a), key(b))
        pos(i) == 1 + Cardinality({m \in 1..Len(P) : cmp(P[m], P[i]) < 0})
                    + Cardinality({m \in 1..(i - 1) : cmp(P[m], P[i]) = 0})
    IN /\ Len(S) = Len(P)
       /\ (sortField = "") => S = P
       /\ (sortField # "") =>
             /\ {pos(i) : i \in 1..Len(P)} = 1..Len(P)
             /\ \A i \in 1..Len(P) : S[pos(i)] = P[i]

\* Sorted descending on a column in which several rows have the same key,
\* and the order shown differs from the filtered order.
C13_Witness ==
    /\ sortField = "version"
    /\ sortDirection = "desc"
    /\ sortedRows # processedRows
    /\ \E i \in 1..Len(sortedRows) : \E j \in (i + 1)..Len(sortedRows) :
          sortedRows[i].version = sortedRows[j].version

(***************************************************************************)
(* C14.  A click on a sortable header either is on the current sort field, *)
(* and then the field stays and the direction flips, or is on another      *)
(* field (or no field was set), and then that field becomes the sort field *)
(* and the direction becomes ascending whatever it was.                    *)
(***************************************************************************)
C14_ToggleSort ==
    [][handleSort =>
          \/ /\ sortField # ""
             /\ sortField' = sortField
             /\ sortDirection' = (IF sortDirection = "asc" THEN "desc" ELSE "asc")
          \/ /\ sortField' # sortField
             /\ sortField' \in SortableFields
             /\ sortDirection' = "asc"]_vars

\* Sorted descending with the table shown and a header click still to come:
\* a click on another header meets the direction "desc".
C14_Witness ==
    /\ TableRendered
    /\ sortField = "name"
    /\ sortDirection = "desc"
    /\ ops < MaxOps

\* The ids of the rows shown.
visibleIds == {sortedRows[i].id : i \in 1..Len(sortedRows)}

(***************************************************************************)
(* C15.  Select-all is view-scoped and replacing: a click on the header    *)
(* checkbox with a number of selected ids other than the number of rows    *)
(* shown makes the selection exactly the ids of the rows shown, dropping   *)
(* every selected id that is not shown; a change of the search text or of  *)
(* the sort leaves the selection as it is.                                 *)
(***************************************************************************)
C15_SelectAllIsViewScoped ==
    [][/\ (toggleAllRows /\ Cardinality(selectedRows) # Len(sortedRows)) =>
              selectedRows' = visibleIds
       /\ (setSearchQuery \/ handleSort) => selectedRows' = selectedRows]_vars

\* An id that is not shown is selected, and a click on the header checkbox
\* is still to come and will not clear.
C15_Witness ==
    /\ TableRendered
    /\ ops < MaxOps
    /\ searchQuery # <<>>
    /\ selectedRows \ visibleIds # {}
    /\ Cardinality(selectedRows) # Len(sortedRows)

(***************************************************************************)
(* C16, as claimed.  A click on the header checkbox leaves the selection   *)
(* empty if and only if, before it, the number of selected ids equals the  *)
(* number of rows shown and that number is greater than zero; in every     *)
(* other case the selection becomes the set of ids of the rows shown.      *)
(***************************************************************************)
C16_ClearsIffEqualAndNonzero ==
    [][toggleAllRows =>
          LET clears == /\ Cardinality(selectedRows) = Len(sortedRows)
                        /\ Len(sortedRows) > 0
          IN /\ (selectedRows' = {}) <=> clears
             /\ ~clears => selectedRows' = visibleIds]_vars

(***************************************************************************)
(* C16, amended.  A click on the header checkbox leaves the selection      *)
(* empty if and only if the number of selected ids equals the number of    *)
(* rows shown or no row is shown; when the two numbers are equal the       *)
(* selection is cleared, and otherwise it becomes the set of ids of the    *)
(* rows shown (the empty set when no row is shown).                        *)
(***************************************************************************)
C16_ClearsIffEqualOrNoRows ==
    [][toggleAllRows =>
          LET equal == Cardinality(selectedRows) = Len(sortedRows)
          IN /\ (selectedRows' = {}) <=> (equal \/ Len(sortedRows) = 0)
             /\ equal => selectedRows' = {}
             /\ ~equal => selectedRows' = visibleIds]_vars

\* No row is shown while an id is selected, with a click on the header
\* checkbox still to come: the click leaves the selection empty.
C16_Witness ==
    /\ TableRendered
    /\ ops < MaxOps
    /\ sortedRows = <<>>
    /\ selectedRows # {}

C18_StaleResultsAreDropped ==
    [][/\ \A i \in staleFetches :
             (queryFnResolves(i) \/ queryFnRejects(i)) =>
                 /\ UNCHANGED <<data, status, fetchStatus, error, fetchFailureCount>>
                 /\ cursor' = cursor
                 /\ Cardinality(liveFetches') = Cardinality(liveFetches)
       /\ retry => \A i \in 1..Len(fetches) : fetches'[i].cancelled
       /\ (data' # data) => \E i \in liveFetches : queryFnResolves(i)]_vars

\* Retry was pressed while the refetch started by an earlier Retry was under
\* way: the earlier fetch function still runs beside the live one, and has
\* already fetched a page.
C18_Witness ==
    /\ error
    /\ liveFetches # {}
    /\ \E i \in staleFetches :
          /\ fetches[i].direction = "none"
          /\ fetches[i].result.pages # <<>>

(***************************************************************************)
(* C19, as claimed.  The engine never retries by itself: when a request of *)
(* the live fetch fails, no request is under way afterwards and the status *)
(* is errored, until Retry; and a fetch function is started only by a      *)
(* scroll event or by Retry (the first one by the construction).           *)
(***************************************************************************)
C19_NoAutomaticRetry ==
    [][/\ (\E i \in liveFetches : queryFnRejects(i)) =>
              /\ liveFetches' = {}
              /\ paginationStatus' = "errored"
       /\ (Len(fetches') > Len(fetches)) => (handleScroll \/ retry)]_vars

(***************************************************************************)
(* C20, as claimed.  While a fetch is pending, the initial one as well as  *)
(* one of a next page, the user operations are enabled (within the budget  *)
(* of operations: Add row, the search box, the sortable headers and the    *)
(* header checkbox can all act), and a request that resolves leaves the    *)
(* overlay, the search text, the sort and the selection as they were.      *)
(***************************************************************************)
C20_OperationsWhileFetching ==
    /\ []((isFetching /\ ops < MaxOps) =>
             /\ ENABLED addNewRow
             /\ ENABLED setSearchQuery
             /\ ENABLED handleSort
             /\ ENABLED toggleAllRows)
    /\ [][(\E i \in 1..Len(fetches) : queryFnResolves(i)) =>
             UNCHANGED <<localEdits, searchQuery, sortField, sortDirection,
                         selectedRows, editingCell, editValue>>]_vars

(***************************************************************************)
(* C21.  When every request succeeds and the near-bottom scroll event      *)
(* keeps coming while it can start a fetch, the paginator eventually is    *)
(* exhausted for good with the fetched rows being all the records of the   *)
(* payload, in order, and it is never in error.                            *)
(***************************************************************************)
C21_EventuallyExhausted ==
    /\ <>[](/\ paginationStatus = "exhausted"
            /\ Len(allRows) = Len(allData)
            /\ \A i \in 1..Len(allRows) :
                  allRows[i] \in transformedRows(allData[i], i - 1))
    /\ [](~error /\ paginationStatus # "errored")

\* The whole of a five-record payload was fetched page by page while the
\* user spent the budget of operations.
C21_Witness ==
    /\ paginationStatus = "exhausted"
    /\ Len(allData) = MaxRows
    /\ Len(allRows) = Len(allData)
    /\ Len(data.pages) >= 3
    /\ ops = MaxOps

====
